---- MODULE Spec2Model ----
(***************************************************************************)
(* Three independent one-shot scripts:                                     *)
(*   CloudWatch_Logs_Error_Scanner.py  (LogScanner,      SpecScanner)      *)
(*   Disk_Space_Monitor_Linux.py       (DiskMonitor,     SpecDisk)         *)
(*   auto_stop_ec2.py                  (InstanceStopper, SpecStopper)      *)
(* Each script is one linear pass.  A script's remote collaborators (the   *)
(* log backend, the compute backend, the SMTP transport, the environment)  *)
(* are nondeterministic: a call either raises or answers.  The variables   *)
(* of the scripts that a specification does not run keep their initial     *)
(* values.                                                                 *)
(***************************************************************************)
EXTENDS Integers, Sequences, FiniteSets, TLC

VARIABLES
    log,               \* records emitted through the module-level logger
    \* ---- auto_stop_ec2.py
    stopPc,            \* position in main()
    ec2Response,       \* what describe_instances answered (ghost)
    instances_to_stop, \* main(): result of get_instances_to_stop
    stopCalls,         \* InstanceIds of every stop_instances call the backend saw
    \* ---- CloudWatch_Logs_Error_Scanner.py
    scanPc,            \* position in main() / scan_logs_for_pattern
    limit,             \* get_recent_log_streams: limit
    backendStreams,    \* the log group's streams, most recent event first
    listLimits,        \* limit of every describe_log_streams call the backend saw
    log_streams,       \* main(): result of get_recent_log_streams
    now,               \* scan_logs_for_pattern: now (ms)
    idx,               \* scan_logs_for_pattern: position of the for loop
    queried,           \* stream of every filter_log_events call the backend saw
    lastOutcome,       \* what the latest filter_log_events call did (ghost)
    matchCount,        \* matching events in the window of the streams whose
                       \* query answered (ghost)
    \* ---- Disk_Space_Monitor_Linux.py
    diskPc,            \* position in __main__ / check_and_alert / send_email_alert
    threshold_env,     \* os.getenv("DISK_USAGE_THRESHOLD", "80")
    threshold,         \* __main__: threshold
    checkCalls,        \* threshold of every check_and_alert call
    usage,             \* check_and_alert: usage
    alertCalls,        \* usage of every send_email_alert call
    smtp_user,         \* send_email_alert: smtp_user
    smtp_pass,         \* send_email_alert: smtp_pass
    smtpSteps          \* SMTP steps that completed, in order

stopperVars == <<stopPc, ec2Response, instances_to_stop, stopCalls>>
scannerVars == <<scanPc, limit, backendStreams, listLimits, log_streams, now,
                 idx, queried, lastOutcome, matchCount>>
diskVars == <<diskPc, threshold_env, threshold, checkCalls, usage, alertCalls,
              smtp_user, smtp_pass, smtpSteps>>
vars == <<log, stopperVars, scannerVars, diskVars>>

(***************************************************************************)
(* Python values                                                           *)
(***************************************************************************)
\* Python strings that the code parses or strips are sequences of one-character
\* strings.  None, where a str is expected, is a sequence no string equals.
None == <<"None">>

\* The ghost value of a call that has not been made yet.
NoCall == [pending |-> TRUE]

\* dict.get(k, default): a dict is a function, a missing key is not in its domain.
Get(d, k, default) == IF k \in DOMAIN d THEN d[k] ELSE default

\* All sequences over S of length at most n.
SeqUpTo(S, n) == UNION {[1..k -> S] : k \in 0..n}

\* logger.info / logger.warning / logger.error: one record, the text in pieces.
LogLine(level, text) == [level |-> level, text |-> text]

\* The exceptions a boto3 client call raises.
BackendErrors == {"BotoCoreError", "ClientError"}

\* try/except: the handler runs when the raised class is one the clause names.
Caught(exc, handlers) == exc \in handlers

ScannerOff ==
    /\ scanPc = "off"
    /\ limit = 0
    /\ backendStreams = << >>
    /\ listLimits = << >>
    /\ log_streams = << >>
    /\ now = 0
    /\ idx = 0
    /\ queried = << >>
    /\ lastOutcome = NoCall
    /\ matchCount = 0

DiskOff ==
    /\ diskPc = "off"
    /\ threshold_env = << >>
    /\ threshold = 0
    /\ checkCalls = << >>
    /\ usage = 0
    /\ alertCalls = << >>
    /\ smtp_user = None
    /\ smtp_pass = None
    /\ smtpSteps = << >>

(***************************************************************************)
(* auto_stop_ec2.py                                                        *)
(***************************************************************************)
MaxReservations == 2
MaxInstances == 2

InstanceIdNames == {"i-1", "i-2"}

\* One element of a reservation's 'Instances'.
InstanceRecords == {[InstanceId |-> i] : i \in InstanceIdNames}

\* One element of 'Reservations': with or without an 'Instances' list.
ReservationRecords ==
    {<< >>} \cup {[Instances |-> s] : s \in SeqUpTo(InstanceRecords, MaxInstances)}

\* The answers of describe_instances: with or without 'Reservations'.
DescribeResponses ==
    {<< >>} \cup
    {[Reservations |-> s] : s \in SeqUpTo(ReservationRecords, MaxReservations)}

\* [instance['InstanceId'] for instance in instances]
RECURSIVE MapInstanceId(_)
MapInstanceId(instances) ==
    IF instances = << >> THEN << >>
    ELSE <<Head(instances)["InstanceId"]>> \o MapInstanceId(Tail(instances))

\* for reservation in reservations: for instance in reservation.get('Instances', [])
RECURSIVE FlattenReservations(_)
FlattenReservations(reservations) ==
    IF reservations = << >> THEN << >>
    ELSE MapInstanceId(Get(Head(reservations), "Instances", << >>))
             \o FlattenReservations(Tail(reservations))

\* A plausible slip: the inner loop is dropped and only the first instance of each
\* reservation is kept.
RECURSIVE FirstInstanceOnly(_)
FirstInstanceOnly(response) ==
    LET rs == Get(response, "Reservations", << >>)
        first(r) == LET is == Get(r, "Instances", << >>)
                    IN  IF is = << >> THEN << >> ELSE <<is[1]["InstanceId"]>>
    IN  IF rs = << >> THEN << >>
        ELSE first(Head(rs)) \o FirstInstanceOnly([Reservations |-> Tail(rs)])

\* The list comprehension of get_instances_to_stop.
InstanceIdsOf(response) ==
    FlattenReservations(Get(response, "Reservations", << >>))

\* except (BotoCoreError, ClientError) of get_instances_to_stop
DescribeHandlers == {"BotoCoreError", "ClientError"}

\* except (BotoCoreError, ClientError) of stop_instances
StopHandlers == {"BotoCoreError", "ClientError"}

\* A plausible slip: the empty-list guard is missing.
StopRequestsUnguarded(instance_ids) == <<instance_ids>>

\* stop_instances: the stop calls issued for instance_ids (none for an empty list,
\* else one call carrying the whole list).
StopRequests(instance_ids) ==
    IF instance_ids = << >> THEN << >> ELSE <<instance_ids>>

StopperOff ==
    /\ stopPc = "off"
    /\ ec2Response = NoCall
    /\ instances_to_stop = << >>
    /\ stopCalls = << >>

StopperInit ==
    /\ stopPc = "main"
    /\ ec2Response = NoCall
    /\ instances_to_stop = << >>
    /\ stopCalls = << >>

\* main(): instances_to_stop = get_instances_to_stop(ec2_client)
GetInstancesToStop ==
    /\ stopPc = "main"
    /\ \/ \E response \in DescribeResponses :
            /\ ec2Response' = response
            /\ instances_to_stop' = InstanceIdsOf(response)
            /\ stopPc' = "stop"
            /\ log' = log
       \/ \E exc \in BackendErrors :
            /\ ec2Response' = [raised |-> exc]
            /\ instances_to_stop' = << >>
            /\ IF Caught(exc, DescribeHandlers)
               THEN /\ log' = Append(log, LogLine("ERROR", <<"Failed to describe instances: ", exc>>))
                    /\ stopPc' = "stop"
               ELSE /\ log' = log
                    /\ stopPc' = "crashed"
    /\ UNCHANGED <<stopCalls, scannerVars, diskVars>>

\* main(): stop_instances(ec2_client, instances_to_stop)
StopInstances ==
    /\ stopPc = "stop"
    /\ stopCalls' = stopCalls \o StopRequests(instances_to_stop)
    /\ IF StopRequests(instances_to_stop) = << >>
       THEN /\ log' = Append(log, LogLine("INFO", <<"No instances to stop.">>))
            /\ stopPc' = "done"
       ELSE LET started == Append(log, LogLine("INFO", <<"Stopping instances: ">> \o instances_to_stop))
            IN  \/ /\ log' = Append(started, LogLine("INFO", <<"Stop command issued successfully.">>))
                   /\ stopPc' = "done"
                \/ \E exc \in BackendErrors :
                     IF Caught(exc, StopHandlers)
                     THEN /\ log' = Append(started, LogLine("ERROR", <<"Failed to stop instances: ", exc>>))
                          /\ stopPc' = "done"
                     ELSE /\ log' = started
                          /\ stopPc' = "crashed"
    /\ UNCHANGED <<ec2Response, instances_to_stop, scannerVars, diskVars>>

StopperNext == GetInstancesToStop \/ StopInstances

InitStopper == log = << >> /\ StopperInit /\ ScannerOff /\ DiskOff

SpecStopper == InitStopper /\ [][StopperNext]_vars

(***************************************************************************)
(* Disk_Space_Monitor_Linux.py                                             *)
(***************************************************************************)
MaxLen == 3

\* The characters of the threshold strings drawn for DISK_USAGE_THRESHOLD.
ThresholdChars == {"8", "0", ".", "-", " ", "a"}

ThresholdStrings == SeqUpTo(ThresholdChars, MaxLen)

DigitString == <<"0", "1", "2", "3", "4", "5", "6", "7", "8", "9">>

DigitChars == {DigitString[i] : i \in 1..10}

SignChars == {"-", "+"}

Whitespace == {" "}

DigitValue(c) == (CHOOSE i \in 1..10 : DigitString[i] = c) - 1

RECURSIVE Pow10(_)
Pow10(n) == IF n = 0 THEN 1 ELSE 10 * Pow10(n - 1)

\* Numbers that float() yields are held in units of 1/Scale: every string of at
\* most MaxLen characters has fewer than MaxLen fraction digits, so the values
\* of the strings drawn are held exactly.
Scale == Pow10(MaxLen)

\* An environment variable: set to a value, or unset.
EnvSet(v) == [set |-> TRUE, value |-> v]
EnvUnset == [set |-> FALSE, value |-> << >>]

\* os.getenv(name, default)
Getenv(e, default) == IF e.set THEN e.value ELSE default

\* str.strip(): leading and trailing whitespace removed.
RECURSIVE LStrip(_)
LStrip(s) == IF s # << >> /\ Head(s) \in Whitespace THEN LStrip(Tail(s)) ELSE s

RECURSIVE RStrip(_)
RStrip(s) ==
    IF s # << >> /\ s[Len(s)] \in Whitespace
    THEN RStrip(SubSeq(s, 1, Len(s) - 1)) ELSE s

Strip(s) == RStrip(LStrip(s))

\* The value of a run of decimal digits, most significant first.
RECURSIVE DecimalValue(_)
DecimalValue(ds) ==
    IF ds = << >> THEN 0
    ELSE 10 * DecimalValue(SubSeq(ds, 1, Len(ds) - 1)) + DigitValue(ds[Len(ds)])

Ok(v) == [ok |-> TRUE, value |-> v]
ValueError == [ok |-> FALSE, value |-> 0]

\* float(s) on the strings over ThresholdChars: surrounding whitespace is dropped,
\* one sign is allowed, and what is left is digits with at most one point and at
\* least one digit.  Anything else raises ValueError.
ParseFloat(s) ==
    LET t == Strip(s)
        signed == t # << >> /\ Head(t) \in SignChars
        body == IF signed THEN Tail(t) ELSE t
        points == {i \in 1..Len(body) : body[i] = "."}
        digits == SelectSeq(body, LAMBDA c : c \in DigitChars)
        wellFormed ==
            /\ \A i \in 1..Len(body) : body[i] \in DigitChars \cup {"."}
            /\ Cardinality(points) <= 1
            /\ digits # << >>
        fraction == IF points = {} THEN 0
                    ELSE Len(body) - (CHOOSE i \in points : TRUE)
        magnitude == (DecimalValue(digits) * Scale) \div Pow10(fraction)
    IN  IF ~wellFormed THEN ValueError
        ELSE IF signed /\ Head(t) = "-" THEN Ok(0 - magnitude)
        ELSE Ok(magnitude)

\* int(s) on a string: surrounding whitespace is dropped, one sign is allowed, and
\* what is left is one or more digits.  Anything else raises ValueError.
ParseInt(s) ==
    LET t == Strip(s)
        signed == t # << >> /\ Head(t) \in SignChars
        body == IF signed THEN Tail(t) ELSE t
        wellFormed == body # << >> /\ \A i \in 1..Len(body) : body[i] \in DigitChars
    IN  IF ~wellFormed THEN ValueError
        ELSE IF signed /\ Head(t) = "-" THEN Ok(0 - DecimalValue(body))
        ELSE Ok(DecimalValue(body))

DefaultThresholdString == <<"8", "0">>
DefaultThreshold == 80
DefaultSmtpPort == 25

\* A plausible slip: the except branch keeps no default (0.0).
ResolveThresholdNoDefault(s) ==
    IF ParseFloat(s).ok THEN ParseFloat(s).value ELSE 0

\* __main__: try: threshold = float(threshold_env) except ValueError: threshold = 80.0
ResolveThreshold(s) ==
    IF ParseFloat(s).ok THEN ParseFloat(s).value ELSE DefaultThreshold * Scale

\* shutil.disk_usage(path): total and used bytes.
DiskSamples ==
    {[total |-> t, used |-> u] : t \in {0, 100, 1000}, u \in {0, 8, 79, 80, 81, 100}}

\* get_disk_usage: (used / total) * 100, in units of 1/Scale.  The samples drawn
\* divide evenly, so the quotient is the exact percentage.
UsageOf(sample) == (sample.used * 100 * Scale) \div sample.total

\* A plausible slip: >= in place of >.
ShouldAlertInclusive(u, t) == u >= t

\* check_and_alert: if usage > threshold
ShouldAlert(u, t) == u > t

\* Truth value of a str-or-None.
Truthy(v) == v # None /\ v # << >>

\* A plausible slip: the password is not looked at.
NeedsAuthUserOnly(user, pass) == Truthy(user)

\* send_email_alert: if smtp_user and smtp_pass
NeedsAuth(user, pass) == Truthy(user) /\ Truthy(pass)

\* The exceptions the SMTP transport raises: the smtplib errors and socket errors.
TransportErrors == {"SMTPException", "OSError"}

\* except Exception of send_email_alert: every class that is raised here.
SendHandlers == TransportErrors \cup BackendErrors \cup {"ValueError"}

\* The values drawn for SMTP_USERNAME and SMTP_PASSWORD.
CredentialEnv == {EnvUnset, EnvSet(<< >>), EnvSet(<<"x">>)}

\* The values drawn for SMTP_PORT.
PortEnv == {EnvUnset, EnvSet(<<"2", "5">>), EnvSet(<<"5", "8", "7">>), EnvSet(<<"a">>)}

\* smtp_port = int(os.getenv("SMTP_PORT", 25))
SmtpPortOf(e) == IF e.set THEN ParseInt(e.value) ELSE Ok(DefaultSmtpPort)

DiskInit ==
    /\ diskPc = "main"
    /\ \E e \in {EnvUnset} \cup {EnvSet(s) : s \in ThresholdStrings} :
         threshold_env = Getenv(e, DefaultThresholdString)
    /\ threshold = 0
    /\ checkCalls = << >>
    /\ usage = 0
    /\ alertCalls = << >>
    /\ smtp_user = None
    /\ smtp_pass = None
    /\ smtpSteps = << >>

\* __main__, lines 81-85: the threshold is resolved.
ParseThreshold ==
    /\ diskPc = "main"
    /\ threshold' = ResolveThreshold(threshold_env)
    /\ log' = IF ParseFloat(threshold_env).ok THEN log
              ELSE Append(log, LogLine("ERROR", <<"Invalid threshold value. Using default: 80">>))
    /\ diskPc' = "check"
    /\ UNCHANGED <<threshold_env, checkCalls, usage, alertCalls, smtp_user, smtp_pass,
                   smtpSteps, stopperVars, scannerVars>>

\* check_and_alert(threshold, path_env) up to the call of send_email_alert.
CheckAndAlert ==
    /\ diskPc = "check"
    /\ checkCalls' = Append(checkCalls, threshold)
    /\ \/ \* shutil.disk_usage raises OSError: nothing catches it
          /\ diskPc' = "crashed"
          /\ UNCHANGED <<usage, alertCalls, log>>
       \/ \E sample \in DiskSamples :
            /\ sample.used <= sample.total
            /\ IF sample.total = 0
               THEN \* ZeroDivisionError: nothing catches it
                    /\ diskPc' = "crashed"
                    /\ UNCHANGED <<usage, alertCalls, log>>
               ELSE /\ usage' = UsageOf(sample)
                    /\ IF ShouldAlert(UsageOf(sample), threshold)
                       THEN /\ log' = Append(log, LogLine("INFO", <<"Disk usage at">>))
                            /\ alertCalls' = Append(alertCalls, UsageOf(sample))
                            /\ diskPc' = "alert"
                       ELSE /\ log' = log \o <<LogLine("INFO", <<"Disk usage at">>),
                                               LogLine("INFO", <<"Disk usage within safe limits.">>)>>
                            /\ alertCalls' = alertCalls
                            /\ diskPc' = "done"
    /\ UNCHANGED <<threshold_env, threshold, smtp_user, smtp_pass, smtpSteps,
                   stopperVars, scannerVars>>

\* send_email_alert, lines 35-49: the configuration is read and the message built.
ReadAlertConfig ==
    /\ diskPc = "alert"
    /\ \E port \in PortEnv, user \in CredentialEnv, pass \in CredentialEnv :
         /\ smtp_user' = Getenv(user, None)
         /\ smtp_pass' = Getenv(pass, None)
         /\ diskPc' = IF SmtpPortOf(port).ok
                      THEN "connect"
                      ELSE "crashed"     \* int() raises ValueError before the try
    /\ UNCHANGED <<log, threshold_env, threshold, checkCalls, usage, alertCalls,
                   smtpSteps, stopperVars, scannerVars>>

\* One step of the with block: it completes and control moves on, or it raises
\* and the except clause logs the error and returns.
SmtpOutcome(step, next) ==
    /\ \/ /\ smtpSteps' = Append(smtpSteps, step)
          /\ diskPc' = next
          /\ log' = IF step = "send"
                    THEN Append(log, LogLine("WARNING", <<"Disk usage alert sent">>))
                    ELSE log
       \/ \E exc \in TransportErrors :
            /\ smtpSteps' = smtpSteps
            /\ IF Caught(exc, SendHandlers)
               THEN /\ log' = Append(log, LogLine("ERROR", <<"Failed to send alert email: ", exc>>))
                    /\ diskPc' = "done"
               ELSE /\ log' = log
                    /\ diskPc' = "crashed"
    /\ UNCHANGED <<threshold_env, threshold, checkCalls, usage, alertCalls,
                   smtp_user, smtp_pass, stopperVars, scannerVars>>

\* smtplib.SMTP(smtp_server, smtp_port, timeout=10)
SmtpConnect ==
    /\ diskPc = "connect"
    /\ SmtpOutcome("connect", "ehlo")

\* server.ehlo(), then the test of the credentials
SmtpEhlo ==
    /\ diskPc = "ehlo"
    /\ SmtpOutcome("ehlo", IF NeedsAuth(smtp_user, smtp_pass) THEN "starttls" ELSE "send")

\* server.starttls()
SmtpStartTls ==
    /\ diskPc = "starttls"
    /\ SmtpOutcome("starttls", "login")

\* server.login(smtp_user, smtp_pass)
SmtpLogin ==
    /\ diskPc = "login"
    /\ SmtpOutcome("login", "send")

\* server.send_message(msg) and the warning that reports it
SmtpSend ==
    /\ diskPc = "send"
    /\ SmtpOutcome("send", "quit")

\* The with block is left: QUIT is sent, a disconnect is swallowed by smtplib.
SmtpQuit ==
    /\ diskPc = "quit"
    /\ diskPc' = "done"
    /\ UNCHANGED <<log, threshold_env, threshold, checkCalls, usage, alertCalls,
                   smtp_user, smtp_pass, smtpSteps, stopperVars, scannerVars>>

DiskNext ==
    \/ ParseThreshold
    \/ CheckAndAlert
    \/ ReadAlertConfig
    \/ SmtpConnect
    \/ SmtpEhlo
    \/ SmtpStartTls
    \/ SmtpLogin
    \/ SmtpSend
    \/ SmtpQuit

InitDisk == log = << >> /\ DiskInit /\ ScannerOff /\ StopperOff

SpecDisk == InitDisk /\ [][DiskNext]_vars

(***************************************************************************)
(* CloudWatch_Logs_Error_Scanner.py                                        *)
(***************************************************************************)
MaxStreams == 6
MaxScanned == 3

DefaultLimit == 5
LookbackMinutes == 60

\* The limits drawn for get_recent_log_streams; main() uses the default.
LimitChoices == 0..DefaultLimit

StreamNamePool == <<"a", "b", "c", "d", "e", "f", "g", "h">>

\* The log groups drawn: n streams, the one with the latest event first.
StreamsOfGroup(n) == [i \in 1..n |-> [logStreamName |-> StreamNamePool[i]]]

\* The clock reading drawn for int(time.time() * 1000): the window starts at 1.
NowChoices == {LookbackMinutes * 60 * 1000 + 1}

\* FILTER_PATTERN: one term; "E" stands for the default, ERROR.
FilterTerm == "E"

\* start_time = now - (lookback_minutes * 60 * 1000)
StartTime(t, lookback_minutes) == t - (lookback_minutes * 60 * 1000)

\* The stored events drawn for a stream: in and out of the window, matching and
\* not, with and without surrounding whitespace.
StoredChoices(t) ==
    LET hit == [timestamp |-> t, message |-> <<"E">>]
        padded == [timestamp |-> StartTime(t, LookbackMinutes),
                   message |-> <<" ", "E", "r", " ">>]
        old == [timestamp |-> StartTime(t, LookbackMinutes) - 1, message |-> <<"E">>]
        other == [timestamp |-> t, message |-> <<"o", "k">>]
    IN  {<< >>, <<hit>>, <<padded>>, <<old>>, <<other>>, <<hit, padded>>,
         <<padded, hit>>, <<other, hit>>, <<old, other>>, <<hit, old, other, padded>>}

\* The backend's filter: a term matches a message that holds it.
Matches(message, term) == \E i \in 1..Len(message) : message[i] = term

\* The events of a stream that filter_log_events selects.
SelectedEvents(stored, startTime, endTime, term) ==
    SelectSeq(stored, LAMBDA e : /\ startTime <= e.timestamp
                                 /\ e.timestamp <= endTime
                                 /\ Matches(e.message, term))

\* The answers of filter_log_events for a stream with the events `stored`: one
\* page, any prefix of the selected events; a page that is not the last carries a
\* nextToken.  The 'events' key may be absent when the page is empty.
FilterResponses(stored, startTime, endTime, term) ==
    LET selected == SelectedEvents(stored, startTime, endTime, term)
    IN  {[events |-> selected], [events |-> selected, nextToken |-> "t"]}
        \cup {[events |-> SubSeq(selected, 1, k), nextToken |-> "t"] :
                 k \in 0..(Len(selected) - 1)}
        \cup (IF selected = << >> THEN {<< >>} ELSE {})

\* The answers of describe_log_streams(limit=n): the first n streams of the group,
\* with a nextToken when streams are left.  n < 1 is refused (the call raises).
ListResponses(streams, n) ==
    IF n < 1 THEN {}
    ELSE IF Len(streams) > n
    THEN {[logStreams |-> SubSeq(streams, 1, n), nextToken |-> "t"]}
    ELSE {[logStreams |-> streams]}
         \cup (IF streams = << >> THEN {<< >>} ELSE {})

\* A plausible slip: an off-by-one in the limit handed to the query.
ListQueryLimitOffByOne(n) == n + 1

\* get_recent_log_streams: limit=limit in the describe_log_streams call.
ListQueryLimit(n) == n

\* [stream['logStreamName'] for stream in response.get('logStreams', [])]
StreamNamesOf(response) ==
    LET streams == Get(response, "logStreams", << >>)
    IN  [i \in 1..Len(streams) |-> streams[i]["logStreamName"]]

\* A plausible slip: only one of the two classes is named.
ListHandlersClientOnly == {"ClientError"}

\* except (BotoCoreError, ClientError) of get_recent_log_streams
ListHandlers == {"BotoCoreError", "ClientError"}

\* except (BotoCoreError, ClientError) of scan_logs_for_pattern
ScanHandlers == {"BotoCoreError", "ClientError"}

\* logger.warning(f"[{stream}] {message}")
WarningLine(stream, message) ==
    LogLine("WARNING", <<"[", stream, "]", " ">> \o message)

\* for event in response.get('events', []): message = event.get('message', '').strip()
WarningLines(stream, response) ==
    LET events == Get(response, "events", << >>)
    IN  [i \in 1..Len(events) |->
            WarningLine(stream, Strip(Get(events[i], "message", << >>)))]

\* A plausible slip: the error leaves the loop (the try wraps the whole loop).
AfterStreamErrorAbort(i, n) == n + 1

\* The loop position after the except clause of a stream: the next stream.
AfterStreamError(i, n) == i + 1

\* The state before main() runs: a limit and a log group are drawn.
ScannerStart(limits, sizes) ==
    /\ scanPc = "main"
    /\ limit \in limits
    /\ \E n \in sizes : backendStreams = StreamsOfGroup(n)
    /\ listLimits = << >>
    /\ log_streams = << >>
    /\ now = 0
    /\ idx = 0
    /\ queried = << >>
    /\ lastOutcome = NoCall
    /\ matchCount = 0

\* get_recent_log_streams(logs_client, log_group, limit)
GetRecentLogStreams ==
    /\ scanPc = "main"
    /\ listLimits' = Append(listLimits, ListQueryLimit(limit))
    /\ \/ \E response \in ListResponses(backendStreams, ListQueryLimit(limit)) :
            /\ lastOutcome' = [response |-> response]
            /\ log_streams' = StreamNamesOf(response)
            /\ log' = log
            /\ scanPc' = "listed"
       \/ \E exc \in BackendErrors :
            /\ lastOutcome' = [raised |-> exc]
            /\ log_streams' = << >>
            /\ IF Caught(exc, ListHandlers)
               THEN /\ log' = Append(log, LogLine("ERROR", <<"Error fetching log streams: ", exc>>))
                    /\ scanPc' = "listed"
               ELSE /\ log' = log
                    /\ scanPc' = "crashed"
    /\ UNCHANGED <<limit, backendStreams, now, idx, queried, matchCount,
                   stopperVars, diskVars>>

\* main(): if not log_streams: log and return
NoStreamsFound ==
    /\ scanPc = "listed"
    /\ log_streams = << >>
    /\ log' = Append(log, LogLine("INFO", <<"No recent log streams found.">>))
    /\ scanPc' = "done"
    /\ UNCHANGED <<limit, backendStreams, listLimits, log_streams, now, idx, queried,
                   lastOutcome, matchCount, stopperVars, diskVars>>

\* scan_logs_for_pattern, lines 54-55: the window is fixed before the loop.
StartScan ==
    /\ scanPc = "listed"
    /\ log_streams # << >>
    /\ now' \in NowChoices
    /\ idx' = 1
    /\ scanPc' = "scan"
    /\ UNCHANGED <<log, limit, backendStreams, listLimits, log_streams, queried,
                   lastOutcome, matchCount, stopperVars, diskVars>>

\* One iteration of the for loop of scan_logs_for_pattern.
ScanStream ==
    /\ scanPc = "scan"
    /\ idx <= Len(log_streams)
    /\ queried' = Append(queried, log_streams[idx])
    /\ \/ \E stored \in StoredChoices(now) :
            \E response \in FilterResponses(stored, StartTime(now, LookbackMinutes),
                                            now, FilterTerm) :
                /\ lastOutcome' = [response |-> response]
                /\ matchCount' = matchCount
                       + Len(SelectedEvents(stored, StartTime(now, LookbackMinutes),
                                            now, FilterTerm))
                /\ log' = log \o WarningLines(log_streams[idx], response)
                /\ idx' = idx + 1
                /\ scanPc' = "scan"
       \/ \E exc \in BackendErrors :
            /\ lastOutcome' = [raised |-> exc]
            /\ matchCount' = matchCount
            /\ IF Caught(exc, ScanHandlers)
               THEN /\ log' = Append(log, LogLine("ERROR", <<"Error scanning log stream ", log_streams[idx], ": ", exc>>))
                    /\ idx' = AfterStreamError(idx, Len(log_streams))
                    /\ scanPc' = "scan"
               ELSE /\ log' = log
                    /\ idx' = idx
                    /\ scanPc' = "crashed"
    /\ UNCHANGED <<limit, backendStreams, listLimits, log_streams, now,
                   stopperVars, diskVars>>

\* The for loop is exhausted: scan_logs_for_pattern and main() return.
ScanReturn ==
    /\ scanPc = "scan"
    /\ idx > Len(log_streams)
    /\ scanPc' = "done"
    /\ UNCHANGED <<log, limit, backendStreams, listLimits, log_streams, now, idx,
                   queried, lastOutcome, matchCount, stopperVars, diskVars>>

ScannerNext ==
    \/ GetRecentLogStreams
    \/ NoStreamsFound
    \/ StartScan
    \/ ScanStream
    \/ ScanReturn

\* main() as written (the default limit) on log groups of at most MaxScanned streams.
InitScanner ==
    log = << >> /\ ScannerStart({DefaultLimit}, 0..MaxScanned) /\ StopperOff /\ DiskOff

SpecScanner == InitScanner /\ [][ScannerNext]_vars

ListerNext ==
    \/ GetRecentLogStreams
    \/ NoStreamsFound

\* get_recent_log_streams for every limit up to the default, on log groups of at
\* most MaxStreams streams, and the early return of main().
InitLister ==
    log = << >> /\ ScannerStart(LimitChoices, 0..MaxStreams) /\ StopperOff /\ DiskOff

SpecLister == InitLister /\ [][ListerNext]_vars

(***************************************************************************)
(* Properties                                                              *)
(***************************************************************************)
Raised(outcome) == "raised" \in DOMAIN outcome

LinesAt(level) == SelectSeq(log, LAMBDA l : l.level = level)

\* C1: scan_logs_for_pattern isolates per-stream failures.  Every stream of the
\* list is queried exactly once, in list order, whatever the earlier streams did;
\* a stream whose query raised a backend error has its error logged, a stream
\* whose query answered has one warning logged per returned event; the function
\* never raises and ends with the whole list queried.
C1_PerStreamIsolation ==
    /\ scanPc # "crashed"
    /\ scanPc = "scan" =>
          /\ idx \in 1..(Len(log_streams) + 1)
          /\ queried = SubSeq(log_streams, 1, idx - 1)
    /\ (scanPc = "done" /\ log_streams # << >>) => queried = log_streams
    /\ (scanPc \in {"scan", "done"} /\ queried # << >>) =>
          LET stream == queried[Len(queried)]
          IN  IF Raised(lastOutcome)
              THEN /\ log # << >>
                   /\ log[Len(log)].level = "ERROR"
                   /\ log[Len(log)].text =
                          <<"Error scanning log stream ", stream, ": ", lastOutcome.raised>>
              ELSE LET events == IF "events" \in DOMAIN lastOutcome.response
                                 THEN lastOutcome.response.events ELSE << >>
                       base == Len(log) - Len(events)
                   IN  /\ base >= 0
                       /\ \A i \in 1..Len(events) :
                             /\ log[base + i].level = "WARNING"
                             /\ log[base + i].text =
                                    <<"[", stream, "]", " ">> \o Strip(events[i].message)

\* C1 witness: the run ended, an earlier stream's query raised, and a later
\* stream's event was still logged.
C1_Witness ==
    /\ scanPc = "done"
    /\ Len(queried) >= 2
    /\ queried = log_streams
    /\ \E i, j \in 1..Len(log) :
          /\ i < j
          /\ log[i].level = "ERROR"
          /\ log[i].text[2] = log_streams[1]
          /\ log[j].level = "WARNING"
          /\ log[j].text[2] = log_streams[2]

\* C9 (as claimed): when the scan has ended, the number of warning lines equals the
\* number of events in the window that match the pattern, over the streams whose
\* query answered.
C9_WarningPerMatchingEvent ==
    scanPc = "done" => Len(LinesAt("WARNING")) = matchCount

\* C4: get_recent_log_streams never raises on a backend error of the list query:
\* the error is logged and the result is the empty list.
C4_ListErrorSwallowed ==
    /\ scanPc # "crashed"
    /\ (scanPc \in {"listed", "done"} /\ Raised(lastOutcome)) =>
          /\ log_streams = << >>
          /\ log # << >>
          /\ log[1] = [level |-> "ERROR",
                       text |-> <<"Error fetching log streams: ", lastOutcome.raised>>]

\* C4 witness: the list query of a group that has streams raised BotoCoreError,
\* and the caller got the empty list.
C4_Witness ==
    /\ scanPc = "listed"
    /\ Raised(lastOutcome)
    /\ lastOutcome.raised = "BotoCoreError"
    /\ backendStreams # << >>
    /\ log_streams = << >>

InstancesIn(reservation) ==
    IF "Instances" \in DOMAIN reservation THEN reservation.Instances ELSE << >>

ReservationsIn(response) ==
    IF "Reservations" \in DOMAIN response THEN response.Reservations ELSE << >>

\* The number of instances in the reservations before the r-th.
RECURSIVE InstancesBefore(_, _)
InstancesBefore(rs, r) ==
    IF r <= 1 THEN 0
    ELSE InstancesBefore(rs, r - 1) + Len(InstancesIn(rs[r - 1]))

\* C6: get_instances_to_stop flattens the response: the result holds the
\* InstanceId of the i-th instance of the r-th reservation at the position that
\* follows all instances of the earlier reservations, and nothing else; a missing
\* Reservations or Instances field counts as empty.
C6_FlattenedIds ==
    (stopPc \in {"stop", "done"} /\ ~Raised(ec2Response)) =>
        LET rs == ReservationsIn(ec2Response)
        IN  /\ Len(instances_to_stop) = InstancesBefore(rs, Len(rs) + 1)
            /\ \A r \in 1..Len(rs) : \A i \in 1..Len(InstancesIn(rs[r])) :
                   instances_to_stop[InstancesBefore(rs, r) + i]
                       = InstancesIn(rs[r])[i].InstanceId

\* C6 witness: two reservations, the first with two instances, flattened to three
\* ids.
C6_Witness ==
    /\ stopPc = "stop"
    /\ ~Raised(ec2Response)
    /\ Len(ReservationsIn(ec2Response)) = 2
    /\ Len(InstancesIn(ReservationsIn(ec2Response)[1])) = 2
    /\ instances_to_stop = <<"i-1", "i-2", "i-1">>

\* C3: stop_instances issues no stop call for an empty list and exactly one, with
\* the whole list, for a non-empty one; never a second one, also when the first
\* fails.
C3_OneStopCall ==
    /\ Len(stopCalls) <= 1
    /\ stopPc \in {"main", "stop"} => stopCalls = << >>
    /\ stopPc = "done" =>
          \/ instances_to_stop = << >> /\ stopCalls = << >>
          \/ instances_to_stop # << >> /\ stopCalls = <<instances_to_stop>>

\* C3 witness: the one stop call of a two-instance batch failed, and the function
\* returned without another call.
C3_Witness ==
    /\ stopPc = "done"
    /\ Len(instances_to_stop) = 2
    /\ stopCalls = <<instances_to_stop>>
    /\ log[Len(log)].level = "ERROR"

\* check_and_alert got as far as logging the usage it sampled.
Sampled == \E i \in 1..Len(log) : log[i].text = <<"Disk usage at">>

\* C2: check_and_alert calls send_email_alert exactly once when the sampled usage
\* is strictly greater than the threshold, and not at all otherwise.
C2_AlertIffAbove ==
    /\ ~Sampled => alertCalls = << >>
    /\ Sampled =>
          /\ usage > threshold => alertCalls = <<usage>>
          /\ usage <= threshold => alertCalls = << >>

\* C2 witness: usage 81 against threshold 80, one call.
C2_Witness ==
    /\ Sampled
    /\ threshold = 80 * Scale
    /\ usage = 81 * Scale
    /\ Len(alertCalls) = 1

\* C7 (as claimed): send_email_alert never fails the run, for every configuration
\* of the SMTP environment variables: once it is called, the run does not end in
\* an uncaught exception.
C7_AlertNeverFailsRun ==
    alertCalls # << >> => diskPc # "crashed"

\* A string is number-shaped when, between leading and trailing blanks, it is an
\* optional sign followed by digits with at most one point and at least one digit.
NumberShaped(s) ==
    \E a \in 1..(Len(s) + 1), b \in 0..Len(s) :
        /\ \A i \in 1..(a - 1) : s[i] = " "
        /\ \A i \in (b + 1)..Len(s) : s[i] = " "
        /\ LET first == IF a <= b /\ s[a] \in {"-", "+"} THEN a + 1 ELSE a
           IN  /\ first <= b
               /\ \A i \in first..b : s[i] \in DigitChars \cup {"."}
               /\ Cardinality({i \in first..b : s[i] = "."}) <= 1
               /\ \E i \in first..b : s[i] \in DigitChars

InvalidThresholdLine ==
    [level |-> "ERROR", text |-> <<"Invalid threshold value. Using default: 80">>]

\* C8: in the entry point a threshold string that is not a number resolves to 80.0
\* with a logged error and without raising, and check_and_alert is called with
\* 80.0; a string that is a number resolves to its own value ("80" to 80, "8" to
\* 8, "0.8" and ".8" to eight tenths, "-8" to minus 8) and logs no error.
C8_ThresholdFallback ==
    /\ diskPc = "crashed" => checkCalls # << >>
    /\ checkCalls # << >> => checkCalls = <<threshold>>
    /\ diskPc # "main" =>
          IF NumberShaped(threshold_env)
          THEN /\ threshold = ParseFloat(threshold_env).value
               /\ (log # << >> => log[1] # InvalidThresholdLine)
               /\ threshold_env = <<"8", "0">> => threshold = 80 * Scale
               /\ threshold_env = <<"8">> => threshold = 8 * Scale
               /\ threshold_env \in {<<"0", ".", "8">>, <<".", "8">>} => threshold * 10 = 8 * Scale
               /\ threshold_env = <<"-", "8">> => threshold = 0 - 8 * Scale
          ELSE /\ threshold = 80 * Scale
               /\ log # << >>
               /\ log[1] = InvalidThresholdLine

\* C8 witness: a threshold string with a letter in it, and check_and_alert called
\* with 80.0.
C8_Witness ==
    /\ \E i \in 1..Len(threshold_env) : threshold_env[i] = "a"
    /\ checkCalls = <<80 * Scale>>
    /\ log[1] = InvalidThresholdLine

\* A credential is configured when the variable is set to a non-empty string.
Configured(v) == v # None /\ Len(v) > 0

\* The SMTP steps of a run that nothing interrupts.
FullSession ==
    <<"connect", "ehlo">>
        \o (IF Configured(smtp_user) /\ Configured(smtp_pass)
            THEN <<"starttls", "login">> ELSE << >>)
        \o <<"send">>

AlertSentLines ==
    SelectSeq(log, LAMBDA l : l.text = <<"Disk usage alert sent">>)

\* C10: the SMTP steps of send_email_alert occur in the order connect, EHLO, then
\* STARTTLS and login exactly when both a username and a password are configured,
\* then send; the success line is logged once, and only after all these steps,
\* send included, completed.
C10_SmtpOrder ==
    /\ Len(smtpSteps) <= Len(FullSession)
    /\ smtpSteps = SubSeq(FullSession, 1, Len(smtpSteps))
    /\ Len(AlertSentLines) = (IF smtpSteps = FullSession THEN 1 ELSE 0)
    /\ diskPc = "quit" => smtpSteps = FullSession

\* C10 witness: a run with credentials went through all five steps and logged
\* success.
C10_Witness ==
    /\ diskPc = "done"
    /\ smtpSteps = <<"connect", "ehlo", "starttls", "login", "send">>
    /\ Len(AlertSentLines) = 1

====
